---- MODULE Spec2Model ----
(***************************************************************************)
(* Model of scripts/enrich_schematic_lcsc.py: the schematic patcher        *)
(* enrich_schematic (the live loop of lines 118-187) and its caller main.  *)
(*                                                                         *)
(* Text is a sequence of tokens.  Each token stands for a fixed string of  *)
(* the schematic dialect (listed below; TokLen gives its length in         *)
(* characters).  The strings are chosen so that no                         *)
(* concatenation of tokens creates an occurrence of one of the patterns    *)
(* the code searches for ( '(' , ')' , newline, the key regex, the         *)
(* '(property "LCSC_Manufacturer"' needle) that is not visible at token    *)
(* level.  Offsets are Python offsets counted in tokens (0-based); only    *)
(* the look-ahead window is measured in characters.                        *)
(*                                                                         *)
(*   "("      (            ")"     )            "Q"    double quote        *)
(*   "NL"     newline      "TAB"   tab          "SP"   space               *)
(*   "K1"     property "LCSC" "C1"                                         *)
(*   "K2"     property "LCSC" "C2"                                         *)
(*   "PM"     property "LCSC_Manufacturer"                                 *)
(*   "PMPN"   property "LCSC_MPN"                                          *)
(*   "AT"     at 0 0 0     "EFFECTS" effects    "FONT"  font               *)
(*   "SIZE"   size 1.27 1.27                    "HIDE"  hide yes           *)
(*   "x"      x            "PAD"   x repeated PadLen times                 *)
(***************************************************************************)
EXTENDS Integers, Sequences, FiniteSets, TLC

VARIABLES entry, file, dry_run, bak, written, pc, content, lcsc_codes, todo,
          lcsc_data, mi, lcsc_code, prop_start, prop_end, result, pos,
          updated, skipped, sites, run, first

vars == <<entry, file, dry_run, bak, written, pc, content, lcsc_codes, todo,
          lcsc_data, mi, lcsc_code, prop_start, prop_end, result, pos,
          updated, skipped, sites, run, first>>

(* ------------------------------ bounds --------------------------------- *)

MaxSegs == 2

PadLen == 280

(* --------------------------- program constants -------------------------- *)

Window == 300

Codes == {"C1", "C2"}

CodeOrder == <<"C1", "C2">>

\* None, as returned by fetch_lcsc_part and by dict.get
NoPart == [none |-> TRUE]

\* no <file>.bak yet
NoFile == [made |-> FALSE, data |-> <<>>]

IsKey(tok) == tok \in {"K1", "K2"}

CodeOf(tok) == IF tok = "K1" THEN "C1" ELSE "C2"

TokLen(tok) ==
  CASE tok \in {"K1", "K2"} -> 20
    [] tok = "PM" -> 28
    [] tok = "PMPN" -> 19
    [] tok = "AT" -> 8
    [] tok = "EFFECTS" -> 7
    [] tok = "FONT" -> 4
    [] tok = "SIZE" -> 14
    [] tok = "HIDE" -> 8
    [] tok = "PAD" -> PadLen
    [] OTHER -> 1

(* ------------------------------ inputs --------------------------------- *)

Plain == <<"x">>

Quoted == <<"x", "Q">>

\* what fetch_lcsc_part can return for a code (besides None)
Parts == { [manufacturer |-> Plain, mpn |-> Plain],
           [manufacturer |-> Quoted, mpn |-> Plain],
           [manufacturer |-> Plain, mpn |-> Quoted] }

\* pieces of schematic text that documents are assembled from
Segs == { <<"(", "K1", ")", "NL">>,                       \* a closed LCSC record
          <<"(", "K2", ")", "NL">>,
          <<"(", "K1">>,                                  \* an LCSC record left open
          <<"K1">>,                                       \* the key text without its paren
          <<"(", "K2", ")", "NL", "(", "PM", ")", "NL">>, \* a record with its derived field
          <<"(", "PM">>,                                  \* start of a derived field
          <<"(", "PMPN">>,
          <<"PAD", "(", "PM">>,                           \* a derived field far away
          <<"(">>, <<")">>,
          <<"Q", ")", "Q">>,                              \* the string literal ")"
          <<"TAB">> }

RECURSIVE DocsOf(_)
DocsOf(n) ==
  IF n = 0 THEN { <<>> }
  ELSE LET shorter == DocsOf(n - 1)
       IN shorter \cup { d \o s : d \in shorter, s \in Segs }

Docs == DocsOf(MaxSegs)

(* --------------------------- string helpers ---------------------------- *)

Min(a, b) == IF a < b THEN a ELSE b

\* Python s[i] for -len <= i < len
PyAt(s, i) == IF i < 0 THEN s[Len(s) + i + 1] ELSE s[i + 1]

\* Python s[a:b] for a >= 0, b >= 0
Slice(s, a, b) ==
  LET e == Min(b, Len(s))
  IN IF a >= e THEN <<>> ELSE SubSeq(s, a + 1, e)

\* Python s.rfind(tok, 0, e) for e >= 0
RFind(s, tok, e) ==
  LET hits == { j \in 0 .. (Min(e, Len(s)) - 1) : s[j + 1] = tok }
  IN IF hits = {} THEN -1 ELSE CHOOSE j \in hits : \A k \in hits : k <= j

\* Python's normalisation of a slice bound that may be negative
PyEnd(s, e) == IF e < 0 THEN (IF Len(s) + e < 0 THEN 0 ELSE Len(s) + e) ELSE e

\* number of occurrences of token tok in s
Count(s, tok) == Cardinality({ k \in 1 .. Len(s) : s[k] = tok })

RECURSIVE WeightedCount(_, _)
WeightedCount(s, toks) ==
  IF toks = {} THEN 0
  ELSE LET t == CHOOSE u \in toks : TRUE
       IN TokLen(t) * Count(s, t) + WeightedCount(s, toks \ {t})

\* len() of the string that the token sequence s stands for
CharLen(s) == WeightedCount(s, { s[k] : k \in 1 .. Len(s) })

\* re.finditer(r'(property "LCSC" "(C\d+)")', content): offset of the next match
\* at or after offset from, -1 when the iterator is exhausted
NextMatch(s, from) ==
  LET hits == { j \in from .. (Len(s) - 1) : IsKey(s[j + 1]) }
  IN IF hits = {} THEN -1 ELSE CHOOSE j \in hits : \A k \in hits : j <= k

\* find_lcsc_codes: regex \(property\s+"LCSC"\s+"(C\d+)"
find_lcsc_codes(s) ==
  { CodeOf(s[j + 1]) : j \in { k \in 1 .. (Len(s) - 1) : s[k] = "(" /\ IsKey(s[k + 1]) } }

SortedCodes(S) == SelectSeq(CodeOrder, LAMBDA c : c \in S)

(* ------------------------- enrich_schematic parts ----------------------- *)

\* prop_start = content.rfind('(', 0, match.start())
PropStart(s, mstart) == RFind(s, "(", mstart)

\* the value of depth after the loop of lines 127-134 has processed offsets
\* start .. i without breaking
Depth(s, start, i) ==
    Cardinality({ k \in start .. i : PyAt(s, k) = "(" })
  - Cardinality({ k \in start .. i : PyAt(s, k) = ")" })

\* the while loop of lines 127-134: the value of i when it ends, which is the
\* first ')' that brings depth to 0, or len(content) when there is none
ScanFrom(s, start) ==
  LET closes == { i \in start .. (Len(s) - 1) : PyAt(s, i) = ")" /\ Depth(s, start, i) = 0 }
  IN IF closes = {} THEN Len(s)
     ELSE CHOOSE i \in closes : \A k \in closes : i <= k

\* prop_end = i + 1
PropEnd(s, start) == ScanFrom(s, start) + 1

\* the gate of the unused replace_lcsc_block (lines 70-72), which asks for both names
AlreadyEnriched_both(s, end) ==
  /\ \E j \in end .. (Len(s) - 2) :
        s[j + 1] = "(" /\ s[j + 2] = "PM" /\ CharLen(Slice(s, end, j + 2)) <= Window
  /\ \E j \in end .. (Len(s) - 2) :
        s[j + 1] = "(" /\ s[j + 2] = "PMPN" /\ CharLen(Slice(s, end, j + 2)) <= Window

\* '(property "LCSC_Manufacturer"' in content[prop_end:prop_end + 300]
AlreadyEnriched(s, end) ==
  \E j \in end .. (Len(s) - 2) :
     /\ s[j + 1] = "("
     /\ s[j + 2] = "PM"
     /\ CharLen(Slice(s, end, j + 2)) <= Window

\* lcsc_data.get(lcsc_code)
Lookup(data, code) == data[code]

RECURSIVE LeadingBlank(_)
LeadingBlank(s) ==
  IF s = <<>> THEN <<>>
  ELSE IF Head(s) \in {"SP", "TAB"} THEN <<Head(s)>> \o LeadingBlank(Tail(s))
       ELSE <<>>

\* lines 152-158
Indent(s, start) ==
  LET e == PyEnd(s, start)
      line_start == RFind(s, "NL", e) + 1
  IN LeadingBlank(Slice(s, line_start, e))

\* one synthesized property record, without the leading newline/indent
PropRecord(name, value, indent) ==
     <<"(", name, "SP", "Q">> \o value \o <<"Q", "NL">>
  \o indent \o <<"TAB", "(", "AT", ")", "NL">>
  \o indent \o <<"TAB", "(", "EFFECTS", "NL">>
  \o indent \o <<"TAB", "TAB", "(", "FONT", "NL">>
  \o indent \o <<"TAB", "TAB", "TAB", "(", "SIZE", ")", "NL">>
  \o indent \o <<"TAB", "TAB", ")", "NL">>
  \o indent \o <<"TAB", "TAB", "(", "HIDE", ")", "NL">>
  \o indent \o <<"TAB", ")", "NL">>
  \o indent \o <<")">>

\* new_props, lines 160-179
NewProps(indent, part) ==
     <<"NL">> \o indent \o PropRecord("PM", part.manufacturer, indent)
  \o <<"NL">> \o indent \o PropRecord("PMPN", part.mpn, indent)


(* ------------------------------- state --------------------------------- *)

NoRun == [text |-> <<>>, updated |-> -1, skipped |-> -1]

EmptyLookup == [c \in Codes |-> NoPart]

KeyCodes(s) == { CodeOf(s[k]) : k \in { n \in 1 .. Len(s) : IsKey(s[n]) } }

\* the lookups enrich_schematic can tell apart on document s
LookupsFor(s) ==
  { d \in [Codes -> Parts \cup {NoPart}] : \A c \in Codes \ KeyCodes(s) : d[c] = NoPart }

\* enrich_schematic(content, lcsc_data) called on its own
InitCall ==
  /\ entry = "call"
  /\ content \in Docs
  /\ lcsc_data \in LookupsFor(content)
  /\ file = <<>>
  /\ dry_run = FALSE
  /\ pc = "call"

\* the script run on a schematic file
InitMain ==
  /\ entry = "main"
  /\ file \in Docs
  /\ dry_run \in BOOLEAN
  /\ content = <<>>
  /\ lcsc_data = EmptyLookup
  /\ pc = "main"

Init ==
  /\ (InitCall \/ InitMain)
  /\ bak = NoFile
  /\ written = FALSE
  /\ lcsc_codes = {}
  /\ todo = <<>>
  /\ mi = 0
  /\ lcsc_code = ""
  /\ prop_start = 0
  /\ prop_end = 0
  /\ result = <<>>
  /\ pos = 0
  /\ updated = 0
  /\ skipped = 0
  /\ sites = <<>>
  /\ run = 1
  /\ first = NoRun

mainVars == <<entry, file, dry_run, bak, written, lcsc_codes, todo>>

runVars == <<run, first>>

siteVars == <<lcsc_code, prop_start, prop_end>>

loopVars == <<mi, lcsc_code, prop_start, prop_end, result, pos, updated, skipped, sites>>

(* ------------------------- enrich_schematic ---------------------------- *)

\* lines 60-61, 118-119
EnterEnrich ==
  /\ pc = "call"
  /\ pc' = "loop"
  /\ mi' = 0
  /\ result' = <<>>
  /\ pos' = 0
  /\ updated' = 0
  /\ skipped' = 0
  /\ sites' = <<>>
  /\ UNCHANGED <<content, lcsc_data>>
  /\ UNCHANGED siteVars
  /\ UNCHANGED mainVars
  /\ UNCHANGED runVars

\* lines 120-135: next match, its property's start and end
Locate ==
  /\ pc = "loop"
  /\ NextMatch(content, mi) # -1
  /\ LET m == NextMatch(content, mi)
         ps == PropStart(content, m)
     IN /\ lcsc_code' = CodeOf(content[m + 1])
        /\ prop_start' = ps
        /\ prop_end' = PropEnd(content, ps)
        /\ mi' = m + 1
  /\ pc' = "gate"
  /\ UNCHANGED <<content, lcsc_data, result, pos, updated, skipped, sites>>
  /\ UNCHANGED mainVars
  /\ UNCHANGED runVars

\* what the loop did at one site: the match offset, the cursor before the
\* site, and the output offset right after the span copied for it
Site(outcome) ==
  [code |-> lcsc_code, start |-> mi - 1, prop_start |-> prop_start,
   prop_end |-> prop_end, outcome |-> outcome, pos |-> pos,
   at |-> Len(result) + Len(Slice(content, pos, prop_end))]

\* lines 138-143
IterSkip ==
  /\ pc = "gate"
  /\ AlreadyEnriched(content, prop_end)
  /\ skipped' = skipped + 1
  /\ result' = result \o Slice(content, pos, prop_end)
  /\ pos' = prop_end
  /\ sites' = Append(sites, Site("skipped"))
  /\ pc' = "loop"
  /\ UNCHANGED <<content, lcsc_data, mi, updated>>
  /\ UNCHANGED siteVars
  /\ UNCHANGED mainVars
  /\ UNCHANGED runVars

\* lines 145-149
IterUnresolved ==
  /\ pc = "gate"
  /\ ~AlreadyEnriched(content, prop_end)
  /\ Lookup(lcsc_data, lcsc_code) = NoPart
  /\ result' = result \o Slice(content, pos, prop_end)
  /\ pos' = prop_end
  /\ sites' = Append(sites, Site("unresolved"))
  /\ pc' = "loop"
  /\ UNCHANGED <<content, lcsc_data, mi, updated, skipped>>
  /\ UNCHANGED siteVars
  /\ UNCHANGED mainVars
  /\ UNCHANGED runVars

\* lines 151-184
IterApply ==
  /\ pc = "gate"
  /\ ~AlreadyEnriched(content, prop_end)
  /\ Lookup(lcsc_data, lcsc_code) # NoPart
  /\ LET new_props == NewProps(Indent(content, prop_start), Lookup(lcsc_data, lcsc_code))
     IN result' = (result \o Slice(content, pos, prop_end)) \o new_props
  /\ updated' = updated + 1
  /\ pos' = prop_end
  /\ sites' = Append(sites, Site("applied"))
  /\ pc' = "loop"
  /\ UNCHANGED <<content, lcsc_data, mi, skipped>>
  /\ UNCHANGED siteVars
  /\ UNCHANGED mainVars
  /\ UNCHANGED runVars

\* lines 186-187
EnrichReturn ==
  /\ pc = "loop"
  /\ NextMatch(content, mi) = -1
  /\ result' = result \o Slice(content, pos, Len(content))
  /\ pc' = "returned"
  /\ UNCHANGED <<content, lcsc_data, mi, pos, updated, skipped, sites>>
  /\ UNCHANGED siteVars
  /\ UNCHANGED mainVars
  /\ UNCHANGED runVars

\* enrich_schematic applied to its own output with the same lookup
Rerun ==
  /\ pc = "returned"
  /\ entry = "call"
  /\ run = 1
  /\ run' = 2
  /\ first' = [text |-> result, updated |-> updated, skipped |-> skipped]
  /\ content' = result
  /\ pc' = "call"
  /\ UNCHANGED lcsc_data
  /\ UNCHANGED loopVars
  /\ UNCHANGED mainVars

(* -------------------------------- main --------------------------------- *)

\* lines 199-204
ReadFile ==
  /\ pc = "main"
  /\ content' = file
  /\ lcsc_codes' = find_lcsc_codes(file)
  /\ pc' = "codes"
  /\ UNCHANGED <<entry, file, dry_run, bak, written, todo, lcsc_data>>
  /\ UNCHANGED loopVars
  /\ UNCHANGED runVars

\* lines 206-208
NothingToDo ==
  /\ pc = "codes"
  /\ lcsc_codes = {}
  /\ pc' = "exit"
  /\ UNCHANGED <<content, lcsc_data>>
  /\ UNCHANGED mainVars
  /\ UNCHANGED loopVars
  /\ UNCHANGED runVars

\* lines 211-212
StartFetch ==
  /\ pc = "codes"
  /\ lcsc_codes # {}
  /\ todo' = SortedCodes(lcsc_codes)
  /\ lcsc_data' = EmptyLookup
  /\ pc' = "fetch"
  /\ UNCHANGED <<entry, file, dry_run, bak, written, lcsc_codes, content>>
  /\ UNCHANGED loopVars
  /\ UNCHANGED runVars

\* lines 212-221; fetch_lcsc_part (lines 31-46) returns a part or None
Fetch ==
  /\ pc = "fetch"
  /\ todo # <<>>
  /\ \E part \in Parts \cup {NoPart} :
        lcsc_data' = IF part # NoPart THEN [lcsc_data EXCEPT ![Head(todo)] = part]
                     ELSE lcsc_data
  /\ todo' = Tail(todo)
  /\ UNCHANGED <<entry, file, dry_run, bak, written, lcsc_codes, content, pc>>
  /\ UNCHANGED loopVars
  /\ UNCHANGED runVars

\* line 226
CallEnrich ==
  /\ pc = "fetch"
  /\ todo = <<>>
  /\ pc' = "call"
  /\ UNCHANGED <<content, lcsc_data>>
  /\ UNCHANGED mainVars
  /\ UNCHANGED loopVars
  /\ UNCHANGED runVars

\* lines 230-232
DryRunReturn ==
  /\ pc = "returned"
  /\ entry = "main"
  /\ dry_run
  /\ pc' = "exit"
  /\ UNCHANGED <<content, lcsc_data>>
  /\ UNCHANGED mainVars
  /\ UNCHANGED loopVars
  /\ UNCHANGED runVars

\* lines 234-236
NoChanges ==
  /\ pc = "returned"
  /\ entry = "main"
  /\ ~dry_run
  /\ updated = 0
  /\ pc' = "exit"
  /\ UNCHANGED <<content, lcsc_data>>
  /\ UNCHANGED mainVars
  /\ UNCHANGED loopVars
  /\ UNCHANGED runVars

\* main without the "No changes needed" return of lines 234-236
ShouldWrite_always(dry, upd) == ~dry

\* neither early return of lines 230-236 was taken
ShouldWrite(dry, upd) == ~dry /\ upd # 0

\* lines 239-241: shutil.copy2(args.schematic, backup)
Backup ==
  /\ pc = "returned"
  /\ entry = "main"
  /\ ShouldWrite(dry_run, updated)
  /\ bak' = [made |-> TRUE, data |-> file]
  /\ pc' = "backed"
  /\ UNCHANGED <<entry, file, dry_run, written, lcsc_codes, todo, content, lcsc_data>>
  /\ UNCHANGED loopVars
  /\ UNCHANGED runVars

\* lines 243-244
WriteFile ==
  /\ pc = "backed"
  /\ file' = result
  /\ written' = TRUE
  /\ pc' = "exit"
  /\ UNCHANGED <<entry, dry_run, bak, lcsc_codes, todo, content, lcsc_data>>
  /\ UNCHANGED loopVars
  /\ UNCHANGED runVars

Next ==
  \/ EnterEnrich
  \/ Locate
  \/ IterSkip
  \/ IterUnresolved
  \/ IterApply
  \/ EnrichReturn
  \/ Rerun
  \/ ReadFile
  \/ NothingToDo
  \/ StartFetch
  \/ Fetch
  \/ CallEnrich
  \/ DryRunReturn
  \/ NoChanges
  \/ Backup
  \/ WriteFile

Spec == Init /\ [][Next]_vars

(* ------------------------------ properties ----------------------------- *)

\* enrich_schematic is running or has returned: sites describes content
InRun == pc \in {"loop", "gate", "returned"}

SiteIdx == 1 .. Len(sites)

Applied(k) == sites[k].outcome = "applied"

\* the scan of site k started at the parenthesis that opens the matched record
WellLocated(k) == sites[k].prop_start >= 0 /\ sites[k].prop_start = sites[k].start - 1

\* the scan of site k found a closing parenthesis
Closed(k) == sites[k].prop_end <= Len(content)

\* every site is a closed record of its own, none inside another
WellFormed ==
  /\ \A k \in SiteIdx : WellLocated(k) /\ Closed(k)
  /\ \A k \in SiteIdx : k > 1 => sites[k - 1].prop_end <= sites[k].prop_start

\* the insertion text the site k calls for
InsertionOf(k) ==
  NewProps(Indent(content, sites[k].prop_start), Lookup(lcsc_data, sites[k].code))

RECURSIVE InsertedBefore(_)
\* total length of the insertions made at sites 1 .. k
InsertedBefore(k) ==
  IF k = 0 THEN 0
  ELSE (IF Applied(k) THEN Len(InsertionOf(k)) ELSE 0) + InsertedBefore(k - 1)

RECURSIVE RemoveInsertions(_, _)
\* text r with the insertions of sites 1 .. k cut out again
RemoveInsertions(r, k) ==
  IF k = 0 THEN r
  ELSE IF Applied(k)
       THEN RemoveInsertions(Slice(r, 0, sites[k].at)
                               \o Slice(r, sites[k].at + Len(InsertionOf(k)), Len(r)),
                             k - 1)
       ELSE RemoveInsertions(r, k - 1)

\* the text "(property <name>" lies wholly inside the Window characters after end
NameInWindow(s, end, name) ==
  \E j \in 0 .. (Len(s) - 2) :
     /\ j >= end
     /\ s[j + 1] = "("
     /\ s[j + 2] = name
     /\ CharLen(SubSeq(s, end + 1, j + 2)) <= Window

\* offset of the first token at or after end that is not white space, or len
FirstNonBlank(s, end) ==
  LET solid == { j \in end .. (Len(s) - 1) : s[j + 1] \notin {"NL", "TAB", "SP"} }
  IN IF solid = {} THEN Len(s) ELSE CHOOSE j \in solid : \A k \in solid : j <= k

\* C1 (as claimed, on documents whose LCSC records are closed and not
\* nested): running enrich_schematic on its own output with the same lookup
\* returns the same text, with updated = 0 and skipped equal to the sites the
\* first run applied plus the sites it skipped.
C1_Idempotent ==
  (pc = "returned" /\ run = 2 /\ WellFormed) =>
     /\ result = first.text
     /\ updated = 0
     /\ skipped = first.updated + first.skipped

\* C2 (as claimed): the returned text is the input with insertions spliced
\* in: cutting the inserted texts out again gives back the input, for every
\* input text and lookup.
C2_BytesPreserved ==
  pc = "returned" => RemoveInsertions(result, Len(sites)) = content

\* C3 (as claimed): a site is reported already enriched only if both
\* LCSC_Manufacturer and LCSC_MPN appear as record names in the window after
\* the record's end.
C3_GateNeedsBoth ==
  InRun =>
    \A k \in SiteIdx :
       sites[k].outcome = "skipped" =>
          /\ NameInWindow(content, sites[k].prop_end, "PM")
          /\ NameInWindow(content, sites[k].prop_end, "PMPN")

\* C3 (amended): a site is reported already enriched (and counted as
\* skipped) exactly when the text (property "LCSC_Manufacturer" lies inside
\* the 300 characters after the record's end; LCSC_MPN is not consulted.
C3_GateManufacturerOnly ==
  InRun =>
    /\ \A k \in SiteIdx :
          sites[k].outcome = "skipped" <=> NameInWindow(content, sites[k].prop_end, "PM")
    /\ skipped = Cardinality({ k \in SiteIdx : NameInWindow(content, sites[k].prop_end, "PM") })

\* C3 witness: a site followed by LCSC_Manufacturer but not by LCSC_MPN was
\* skipped
C3_Witness ==
  /\ pc = "returned"
  /\ skipped > 0
  /\ \E k \in SiteIdx :
        /\ sites[k].outcome = "skipped"
        /\ WellLocated(k)
        /\ Closed(k)
        /\ NameInWindow(content, sites[k].prop_end, "PM")
        /\ ~NameInWindow(content, sites[k].prop_end, "PMPN")

\* C4 (as claimed): when the balanced-region scan that starts at a located
\* record's opening parenthesis reaches end-of-text before depth returns to
\* zero, the rewrite fails and no text is returned.
C4_MalformedAborts ==
  pc = "returned" => \A k \in SiteIdx : WellLocated(k) => Closed(k)

\* C5 (as claimed): the closing parenthesis that ends a record's scan is never
\* inside a double-quoted string of that record.
C5_EndOutsideString ==
  InRun =>
    \A k \in SiteIdx :
       (WellLocated(k) /\ Closed(k)) =>
          Count(Slice(content, sites[k].prop_start, sites[k].prop_end), "Q") % 2 = 0

\* C6 (as claimed): a looked-up manufacturer or MPN value containing a
\* double quote is never embedded: the site of a closed record with such a
\* value is not applied.
C6_QuoteRejected ==
  InRun =>
    \A k \in SiteIdx :
       (Applied(k) /\ WellLocated(k) /\ Closed(k)) =>
          /\ Count(Lookup(lcsc_data, sites[k].code).manufacturer, "Q") = 0
          /\ Count(Lookup(lcsc_data, sites[k].code).mpn, "Q") = 0

\* C7 (as claimed): unresolved sites get no insertion and change no counter,
\* and a document whose sites are all unresolved is returned byte-identical
\* with updated = 0 and skipped = 0.
C7_UnresolvedUntouched ==
  /\ InRun =>
       \A k \in SiteIdx :
          sites[k].outcome = "unresolved" =>
             updated + skipped = Cardinality({ j \in SiteIdx : sites[j].outcome # "unresolved" })
  /\ (pc = "returned" /\ \A k \in SiteIdx : sites[k].outcome = "unresolved") =>
       (result = content /\ updated = 0 /\ skipped = 0)

\* C8: the schematic is written only if updated > 0 and --dry-run was not
\* requested, and then the backup holds the original content; in dry-run, in
\* the no-codes case and when updated = 0 there is neither backup nor write.
C8_WriteGuard ==
  entry = "main" =>
    /\ (written \/ bak.made) => (~dry_run /\ updated > 0 /\ lcsc_codes # {})
    /\ written => (bak.made /\ bak.data = content /\ file = result)
    /\ ~written => (pc = "main" \/ file = content)
    /\ bak.made => bak.data = content

\* C8 witness: the file has been written
C8_Witness ==
  /\ entry = "main"
  /\ pc = "exit"
  /\ written
  /\ file # content

\* C9 (as claimed): every applied site has its complete insertion in the
\* output, starting at the record's end offset shifted by the earlier
\* insertions, with the record's own bytes unaltered before it, and updated
\* counts the applied sites.
C9_InsertionPlacement ==
  pc = "returned" =>
    /\ \A k \in SiteIdx :
          (Applied(k) /\ WellLocated(k)) =>
             LET shift == InsertedBefore(k - 1)
                 off == sites[k].prop_end + shift
                 from == sites[k].prop_start
             IN /\ Slice(result, off, off + Len(InsertionOf(k))) = InsertionOf(k)
                /\ Slice(result, from + shift, off)
                     = Slice(content, from, sites[k].prop_end)
    /\ updated = Cardinality({ k \in SiteIdx : Applied(k) })

\* C10 (as claimed): a site is skipped only when the LCSC_Manufacturer record
\* is the very next property after the site's own record.
C10_DirectSuccessor ==
  InRun =>
    \A k \in SiteIdx :
       sites[k].outcome = "skipped" =>
          LET j == FirstNonBlank(content, sites[k].prop_end)
          IN /\ j + 2 <= Len(content)
             /\ content[j + 1] = "("
             /\ content[j + 2] = "PM"

====
